---- MODULE Spec2Model ----
(***************************************************************************)
(* Model of src/src/hooks/useMicroInteractions.ts: the useMicroInteractions *)
(* hook bound to one surface element.  One action is one event handled to   *)
(* completion: the handler, the re-render its setState causes and the       *)
(* effects React commits after that render.                                 *)
(*                                                                          *)
(* Every *Defaults record of the hook (lines 133-193) is a fresh object     *)
(* literal on each render, so every effect that lists one of them as a      *)
(* dependency (hover through applyHoverEffects, focus, active, loading,     *)
(* magnetic, tilt) is cleaned up and run again on EVERY render.             *)
(*                                                                          *)
(* Numbers: scales are in thousandths, pixel offsets of the hover           *)
(* transform in hundredths of a pixel, effectScale in percent, strength in  *)
(* tenths; durations are in milliseconds; device memory is in GB.           *)
(***************************************************************************)
EXTENDS Integers, Sequences, FiniteSets, TLC

VARIABLES
    options,            \* the options argument (immutable per attachment)
    navigator,          \* deviceMemory, hardwareConcurrency, effectiveType, vibrate
    matchMedia,         \* window.matchMedia('(prefers-reduced-motion: reduce)').matches
    status,             \* per controller: "unmounted", "mounted" or "detached"
    memoPerformance,    \* the memoised effectivePerformance of the surface's controller
    isHovered, isFocused, isActive, isLoading,
    loadingAnimation,   \* options.loading.animation of the latest render
    style,              \* element.style: transform, filter, boxShadow, transition
    animations,         \* the looping animations live on the element, oldest first
    lastCancelled,      \* name of the animation cancelled last ("" if none yet)
    listeners,          \* the native listeners registered by the magnetic and tilt effects
    vibrations,         \* navigator.vibrate calls since the last press began
    clicks,             \* clicks handled on bound surfaces so far
    ripples,            \* live ripple spans: click number -> [owner, timer]
    rippleKeyframes,    \* the <style id="ripple-keyframes"> elements in document.head,
                        \* each by the scale its @keyframes ends at
    hoverPhase          \* what happened since attach: "fresh", "entered", "toggled", "other"

vars == <<options, navigator, matchMedia, status, memoPerformance, isHovered, isFocused,
          isActive, isLoading, loadingAnimation, style, animations, lastCancelled,
          listeners, vibrations, clicks, ripples, rippleKeyframes, hoverPhase>>

----------------------------------------------------------------------------
(* Bounds *)

\* controller instances on the page; controller 1 owns the modelled surface
NumControllers == 2
\* clicks handled in one behaviour
MaxClicks == 2
\* vibrations counted during one press
MaxVibrations == 2

Controllers == 1..NumControllers
Primary == 1

----------------------------------------------------------------------------
(* The environment and the options *)

\* an absent navigator field (undefined); like 0 and '' it is falsy for ||
Undefined == 0
NoType == ""

PerformanceModes == {"auto", "high", "balanced", "economy"}
DeviceMemories == {Undefined, 1, 2, 4, 8}
HardwareConcurrencies == {Undefined, 1, 2, 4, 8, 16}
EffectiveTypes == {NoType, "slow-2g", "2g", "3g", "4g"}
LoadingAnimations == {"spin", "pulse", "bounce", "dots"}
FeedbackModes == {"visual", "haptic", "both"}

\* a || b on a number
OrDefault(v, d) == IF v = Undefined THEN d ELSE v
\* a || b on a string
OrDefaultType(v, d) == IF v = NoType THEN d ELSE v

\* the economy test with its disjunction turned into a conjunction
effectivePerformance_swapped(performance, nav) ==
    IF performance # "auto" THEN performance
    ELSE LET deviceMemory == OrDefault(nav.deviceMemory, 4)
             hardwareConcurrency == OrDefault(nav.hardwareConcurrency, 4)
             connectionType == OrDefaultType(nav.effectiveType, "4g")
         IN  IF deviceMemory < 2 /\ hardwareConcurrency < 2 /\ connectionType = "slow-2g"
             THEN "economy"
             ELSE IF deviceMemory >= 8 /\ hardwareConcurrency >= 8 /\ connectionType = "4g"
             THEN "high"
             ELSE "balanced"

\* lines 78-91
effectivePerformance(performance, nav) ==
    IF performance # "auto" THEN performance
    ELSE LET deviceMemory == OrDefault(nav.deviceMemory, 4)
             hardwareConcurrency == OrDefault(nav.hardwareConcurrency, 4)
             connectionType == OrDefaultType(nav.effectiveType, "4g")
         IN  IF deviceMemory < 2 \/ hardwareConcurrency < 2 \/ connectionType = "slow-2g"
             THEN "economy"
             ELSE IF deviceMemory >= 8 /\ hardwareConcurrency >= 8 /\ connectionType = "4g"
             THEN "high"
             ELSE "balanced"

shouldReduceMotion == options.prefersReducedMotion \/ matchMedia

\* the resolved parameter records (caller value over default)
hoverDefaults == [scale |-> 1020, rotate |-> 0, translateY |-> -200,
                  brightness |-> 1100, duration |-> 200]
focusDefaults == [scale |-> 1020, glow |-> TRUE, duration |-> 200]
activeDefaults == [scale |-> 950, rotate |-> 0, duration |-> 100,
                   feedback |-> options.feedback]
loadingDefaults == [animation |-> loadingAnimation, duration |-> 1000]
magneticDefaults == [strength |-> options.magneticStrength, distance |-> 100]
rippleDefaults(c) == [color |-> options.rippleColor, duration |-> options.rippleDuration[c],
                      scale |-> options.rippleScale[c]]
tiltDefaults == [maxTilt |-> options.tiltMaxTilt, scale |-> 1020, speed |-> 400]

----------------------------------------------------------------------------
(* Style values *)

Transform(kind, a, b, nan) == [kind |-> kind, a |-> a, b |-> b, nan |-> nan]
\* element.style.transform before anything was written, and '' written at line 229
EmptyTransform == Transform("", 0, 0, FALSE)
\* 'translateZ(0)'
GpuTransform == Transform("translateZ(0)", 0, 0, FALSE)
\* 'translate(0, 0)'
ZeroTranslate == Transform("translate", 0, 0, FALSE)
\* 'perspective(1000px) rotateX(0deg) rotateY(0deg) scale(1)'
TiltReset == Transform("tiltReset", 0, 0, FALSE)

Filter(kind, brightness) == [kind |-> kind, brightness |-> brightness]
EmptyFilter == Filter("", 0)
NoneFilter == Filter("none", 0)

Transition(prop, ms) == [prop |-> prop, ms |-> ms]
NoTransition == Transition("", 0)

InitialStyle == [transform |-> EmptyTransform, filter |-> EmptyFilter,
                 boxShadow |-> "", transition |-> NoTransition]

\* element.getBoundingClientRect(): the surface is 200 x 100, centred on the origin
Rect == [left |-> -100, top |-> -50, width |-> 200, height |-> 100]
\* pointer positions (clientX, clientY): the centre, inside the surface and inside
\* the magnetic distance, outside the surface at the magnetic distance
PointerPositions == {<<0, 0>>, <<30, 40>>, <<60, 80>>}
InsideRect(p) == /\ Rect.left <= p[1] /\ p[1] <= Rect.left + Rect.width
                 /\ Rect.top <= p[2] /\ p[2] <= Rect.top + Rect.height

\* Math.sqrt on the perfect squares the pointer positions give
Sqrt(n) == CHOOSE r \in 0..n : r * r = n

----------------------------------------------------------------------------
(* The effects, in the order React runs them after a render *)

getEffectScale(tier) ==
    CASE tier = "economy" -> 50
      [] tier = "balanced" -> 80
      [] tier = "high" -> 100
      [] OTHER -> 80

\* lines 196-232, called by the effect of lines 235-237
applyHoverEffects(st, hovered, tier) ==
    IF shouldReduceMotion THEN st
    ELSE LET effectScale == getEffectScale(tier)
             adjustedDuration == IF shouldReduceMotion THEN 1
                                 ELSE (hoverDefaults.duration * effectScale) \div 100
             scale == 1000 + ((hoverDefaults.scale - 1000) * effectScale) \div 100
             translateY == (hoverDefaults.translateY * effectScale) \div 100
             brightness == 1000 + ((hoverDefaults.brightness - 1000) * effectScale) \div 100
         IN  IF hovered
             THEN [st EXCEPT
                     !.transform = Transform(IF options.gpu THEN "hover translateZ(0)"
                                             ELSE "hover", scale, translateY, FALSE),
                     !.filter = IF tier # "economy"
                                THEN Filter("hover", brightness) ELSE NoneFilter,
                     !.transition = Transition("all", adjustedDuration)]
             ELSE [st EXCEPT
                     !.transform = IF options.gpu THEN GpuTransform ELSE EmptyTransform,
                     !.filter = NoneFilter]

\* lines 240-254
focusEffect(st, focused) ==
    IF focused
    THEN [st EXCEPT
            !.boxShadow = IF focusDefaults.glow THEN "glow" ELSE st.boxShadow,
            !.transform = Transform("focus", focusDefaults.scale, 0, FALSE),
            !.transition = Transition("all", focusDefaults.duration)]
    ELSE [st EXCEPT !.boxShadow = "none"]

\* lines 257-266: the style part of the active effect
activeEffect(st, active) ==
    IF active
    THEN [st EXCEPT
            !.transform = Transform("press", activeDefaults.scale, activeDefaults.rotate, FALSE),
            !.transition = Transition("all", activeDefaults.duration)]
    ELSE st

\* lines 267-272: 1 when the active effect calls navigator.vibrate(10), else 0
hapticFeedback(active) ==
    IF active /\ (activeDefaults.feedback = "haptic" \/ activeDefaults.feedback = "both")
              /\ navigator.vibrate
    THEN 1 ELSE 0

\* the loading effect returning no cleanup
loadingCleanup_none(anims, wasLoading) == anims

\* line 311: the cleanup the loading effect returned, if its last run returned one
\* (it did exactly when that run saw isLoading true); it cancels the animation that
\* run started, the newest one
loadingCleanup(anims, wasLoading) ==
    IF wasLoading /\ anims # <<>> THEN SubSeq(anims, 1, Len(anims) - 1) ELSE anims

\* lines 277-309
loadingEffect(anims, loading, animation) ==
    IF ~loading THEN anims
    ELSE Append(anims, [name |-> animation, duration |-> 1000])

MagneticListeners == {"document.mousemove:magnetic", "element.mouseleave:magnetic"}
TiltListeners == {"element.mousemove:tilt", "element.mouseleave:tilt"}

\* a cleanup that forgets the document-level listener
magneticCleanup_leaky(ls) == ls \ {"element.mouseleave:magnetic"}

\* lines 346-349
magneticCleanup(ls) == ls \ MagneticListeners
\* lines 315-344
magneticEffect(ls) ==
    IF magneticDefaults.strength = 0 THEN ls ELSE ls \cup MagneticListeners
\* lines 429-432
tiltCleanup(ls) == ls \ TiltListeners
\* lines 398-427
tiltEffect(ls) ==
    IF tiltDefaults.maxTilt = 0 THEN ls ELSE ls \cup TiltListeners

----------------------------------------------------------------------------
(* The native listeners of the magnetic and tilt effects *)

\* lines 320-337: the document-level mousemove listener of the magnetic effect
magneticMouseMove(st, p) ==
    LET centerX == Rect.left + Rect.width \div 2
        centerY == Rect.top + Rect.height \div 2
        deltaX == p[1] - centerX
        deltaY == p[2] - centerY
        distance == Sqrt(deltaX * deltaX + deltaY * deltaY)
        strength == magneticDefaults.strength
    IN  IF distance < magneticDefaults.distance
        THEN \* deltaX / distance is 0 / 0 = NaN at the centre, and NaN stays NaN
             IF distance = 0
             THEN [st EXCEPT !.transform = Transform("translate", 0, 0, TRUE)]
             ELSE [st EXCEPT !.transform = Transform("translate",
                     (deltaX * strength * (magneticDefaults.distance - distance))
                         \div (distance * 10),
                     (deltaY * strength * (magneticDefaults.distance - distance))
                         \div (distance * 10),
                     FALSE)]
        ELSE [st EXCEPT !.transform = ZeroTranslate]

\* lines 339-341
magneticMouseLeave(st) == [st EXCEPT !.transform = ZeroTranslate]

\* lines 403-420: the element-level mousemove listener of the tilt effect
tiltMouseMove(st, p) ==
    LET centerX == Rect.left + Rect.width \div 2
        centerY == Rect.top + Rect.height \div 2
        tiltX == ((p[2] - centerY) * tiltDefaults.maxTilt) \div (Rect.height \div 2)
        tiltY == ((p[1] - centerX) * tiltDefaults.maxTilt) \div (Rect.width \div 2)
    IN  [st EXCEPT !.transform = Transform("tilt", -tiltX, tiltY, FALSE),
                   !.transition = Transition("transform", tiltDefaults.speed)]

\* lines 422-424
tiltMouseLeave(st) == [st EXCEPT !.transform = TiltReset]

\* a native event dispatched to the listeners registered for it, in registration order
Dispatch(st, name, ls, handled) == IF name \in ls THEN handled ELSE st

----------------------------------------------------------------------------
(* A render of the surface's controller and the effects committed after it *)

Last(q) == q[Len(q)]

Commit(st, h, f, a, l, anim) ==
    LET cancelled == loadingCleanup(animations, isLoading)
        pressed == IF a /\ ~isActive THEN 0 ELSE vibrations
    IN  /\ pressed + hapticFeedback(a) <= MaxVibrations
        /\ isHovered' = h
        /\ isFocused' = f
        /\ isActive' = a
        /\ isLoading' = l
        /\ loadingAnimation' = anim
        /\ style' = activeEffect(focusEffect(applyHoverEffects(st, h, memoPerformance), f), a)
        /\ vibrations' = pressed + hapticFeedback(a)
        /\ animations' = loadingEffect(cancelled, l, anim)
        /\ lastCancelled' = IF Len(cancelled) < Len(animations)
                            THEN Last(animations).name ELSE lastCancelled
        /\ listeners' = tiltEffect(magneticEffect(tiltCleanup(magneticCleanup(listeners))))
        /\ UNCHANGED <<options, navigator, matchMedia, status, memoPerformance,
                       clicks, ripples, rippleKeyframes>>

Mounted == status[Primary] = "mounted"
\* the element exists, bound or not: events can be dispatched to it
Attached == status[Primary] # "unmounted"

----------------------------------------------------------------------------
(* Actions *)

\* the first render and commit of controller c (lines 55-433 run once)
Mount(c) ==
    /\ status[c] = "unmounted"
    /\ status' = [status EXCEPT ![c] = "mounted"]
    /\ IF c = Primary
       THEN LET tier == effectivePerformance(options.performance, navigator)
            IN  /\ memoPerformance' = tier
                /\ style' = activeEffect(focusEffect(
                                applyHoverEffects(InitialStyle, FALSE, tier), FALSE), FALSE)
                /\ animations' = loadingEffect(<<>>, FALSE, loadingAnimation)
                /\ listeners' = tiltEffect(magneticEffect({}))
                /\ hoverPhase' = "fresh"
       ELSE UNCHANGED <<memoPerformance, style, animations, listeners, hoverPhase>>
    /\ UNCHANGED <<options, navigator, matchMedia, isHovered, isFocused, isActive,
                   isLoading, loadingAnimation, lastCancelled, vibrations, clicks,
                   ripples, rippleKeyframes>>

\* unmount of controller c: React clears ref.current, then runs every effect's cleanup
Detach(c) ==
    /\ status[c] = "mounted"
    /\ status' = [status EXCEPT ![c] = "detached"]
    /\ IF c = Primary
       THEN LET cancelled == loadingCleanup(animations, isLoading)
            IN  /\ animations' = cancelled
                /\ lastCancelled' = IF Len(cancelled) < Len(animations)
                                    THEN Last(animations).name ELSE lastCancelled
                /\ listeners' = tiltCleanup(magneticCleanup(listeners))
                /\ hoverPhase' = "other"
       ELSE UNCHANGED <<animations, lastCancelled, listeners, hoverPhase>>
    /\ UNCHANGED <<options, navigator, matchMedia, memoPerformance, isHovered, isFocused,
                   isActive, isLoading, loadingAnimation, style, vibrations, clicks,
                   ripples, rippleKeyframes>>

\* a state setter called with the value the state already has, or on an unmounted
\* component, renders nothing
NoRender == UNCHANGED vars

\* line 436
handleMouseEnter ==
    /\ Attached
    /\ IF Mounted /\ ~isHovered
       THEN /\ Commit(style, TRUE, isFocused, isActive, isLoading, loadingAnimation)
            /\ hoverPhase' = IF hoverPhase = "fresh" THEN "entered" ELSE "other"
       ELSE NoRender

\* the pointer leaves the element: the native mouseleave listeners (magnetic, then
\* tilt) run, then the render caused by line 437 commits its effects
handleMouseLeave ==
    /\ Attached
    /\ LET st == Dispatch(Dispatch(style, "element.mouseleave:magnetic", listeners,
                                   magneticMouseLeave(style)),
                          "element.mouseleave:tilt", listeners, tiltMouseLeave(style))
       IN  IF Mounted /\ isHovered
           THEN /\ Commit(st, FALSE, isFocused, isActive, isLoading, loadingAnimation)
                /\ hoverPhase' = IF hoverPhase = "entered" THEN "toggled" ELSE "other"
           ELSE /\ style' = st
                /\ hoverPhase' = IF st = style THEN hoverPhase ELSE "other"
                /\ UNCHANGED <<options, navigator, matchMedia, status, memoPerformance,
                               isHovered, isFocused, isActive, isLoading, loadingAnimation,
                               animations, lastCancelled, listeners, vibrations, clicks,
                               ripples, rippleKeyframes>>

\* line 438
handleFocus ==
    /\ Attached
    /\ IF Mounted /\ ~isFocused
       THEN /\ Commit(style, isHovered, TRUE, isActive, isLoading, loadingAnimation)
            /\ hoverPhase' = "other"
       ELSE NoRender

\* line 439
handleBlur ==
    /\ Attached
    /\ IF Mounted /\ isFocused
       THEN /\ Commit(style, isHovered, FALSE, isActive, isLoading, loadingAnimation)
            /\ hoverPhase' = "other"
       ELSE NoRender

\* line 440
handleMouseDown ==
    /\ Attached
    /\ IF Mounted /\ ~isActive
       THEN /\ Commit(style, isHovered, isFocused, TRUE, isLoading, loadingAnimation)
            /\ hoverPhase' = "other"
       ELSE NoRender

\* line 441
handleMouseUp ==
    /\ Attached
    /\ IF Mounted /\ isActive
       THEN /\ Commit(style, isHovered, isFocused, FALSE, isLoading, loadingAnimation)
            /\ hoverPhase' = "other"
       ELSE NoRender

\* lines 60, 454: the consumer starts or stops the loading effect
setIsLoading(l) ==
    /\ Attached
    /\ IF Mounted /\ l # isLoading
       THEN /\ Commit(style, isHovered, isFocused, isActive, l, loadingAnimation)
            /\ hoverPhase' = "other"
       ELSE NoRender

\* the consumer renders again, with the same options or with another
\* loading.animation
Rerender(anim) ==
    /\ Mounted
    /\ Commit(style, isHovered, isFocused, isActive, isLoading, anim)
    /\ hoverPhase' = "other"

\* a mousemove inside the element: the tilt listener on the element runs, then the
\* event bubbles to the magnetic listener on the document
ElementMouseMove(p) ==
    /\ Attached
    /\ InsideRect(p)
    /\ LET tilted == Dispatch(style, "element.mousemove:tilt", listeners,
                              tiltMouseMove(style, p))
       IN  style' = Dispatch(tilted, "document.mousemove:magnetic", listeners,
                             magneticMouseMove(tilted, p))
    /\ hoverPhase' = IF style' = style THEN hoverPhase ELSE "other"
    /\ UNCHANGED <<options, navigator, matchMedia, status, memoPerformance, isHovered,
                   isFocused, isActive, isLoading, loadingAnimation, animations,
                   lastCancelled, listeners, vibrations, clicks, ripples, rippleKeyframes>>

\* a mousemove elsewhere in the viewport reaches only the document
DocumentMouseMove(p) ==
    /\ Attached
    /\ ~InsideRect(p)
    /\ style' = Dispatch(style, "document.mousemove:magnetic", listeners,
                         magneticMouseMove(style, p))
    /\ hoverPhase' = IF style' = style THEN hoverPhase ELSE "other"
    /\ UNCHANGED <<options, navigator, matchMedia, status, memoPerformance, isHovered,
                   isFocused, isActive, isLoading, loadingAnimation, animations,
                   lastCancelled, listeners, vibrations, clicks, ripples, rippleKeyframes>>

\* a removal timer that ignores the resolved duration
createRipple_defaultTimer(c) ==
    /\ ripples' = [i \in DOMAIN ripples \cup {clicks + 1} |->
                     IF i = clicks + 1 THEN [owner |-> c, timer |-> 600] ELSE ripples[i]]
    /\ rippleKeyframes' = IF rippleKeyframes = <<>>
                          THEN <<rippleDefaults(c).scale>> ELSE rippleKeyframes

\* lines 353-395, for a click on the bound surface of controller c
createRipple(c) ==
    /\ ripples' = [i \in DOMAIN ripples \cup {clicks + 1} |->
                     IF i = clicks + 1
                     THEN [owner |-> c, timer |-> rippleDefaults(c).duration]
                     ELSE ripples[i]]
    /\ rippleKeyframes' = IF rippleKeyframes = <<>>
                          THEN <<rippleDefaults(c).scale>> ELSE rippleKeyframes

\* lines 442-446
handleClick(c) ==
    /\ status[c] = "mounted"
    /\ clicks < MaxClicks
    /\ clicks' = clicks + 1
    /\ IF rippleDefaults(c).color # ""
       THEN createRipple(c)
       ELSE UNCHANGED <<ripples, rippleKeyframes>>
    /\ UNCHANGED <<options, navigator, matchMedia, status, memoPerformance, isHovered,
                   isFocused, isActive, isLoading, loadingAnimation, style, animations,
                   lastCancelled, listeners, vibrations, hoverPhase>>

\* lines 392-394: the timer armed for ripple i fires
RippleTimeout(i) ==
    /\ i \in DOMAIN ripples
    /\ ripples' = [j \in DOMAIN ripples \ {i} |-> ripples[j]]
    /\ UNCHANGED <<options, navigator, matchMedia, status, memoPerformance, isHovered,
                   isFocused, isActive, isLoading, loadingAnimation, style, animations,
                   lastCancelled, listeners, vibrations, clicks, rippleKeyframes, hoverPhase>>

----------------------------------------------------------------------------
(* Specifications *)

EmptyRipples == [i \in {} |-> [owner |-> Primary, timer |-> 0]]

\* what every specification starts from, whatever the options and the environment
Unmounted ==
    /\ status = [c \in Controllers |-> "unmounted"]
    /\ memoPerformance = "unset"
    /\ isHovered = FALSE /\ isFocused = FALSE /\ isActive = FALSE /\ isLoading = FALSE
    /\ style = InitialStyle
    /\ animations = <<>>
    /\ lastCancelled = ""
    /\ listeners = {}
    /\ vibrations = 0
    /\ clicks = 0
    /\ ripples = EmptyRipples
    /\ rippleKeyframes = <<>>
    /\ hoverPhase = "other"

Options(gpu, performance, reduce, feedback, strength, maxTilt, color, peerScale) ==
    [gpu |-> gpu, performance |-> performance, prefersReducedMotion |-> reduce,
     feedback |-> feedback, magneticStrength |-> strength, tiltMaxTilt |-> maxTilt,
     rippleColor |-> color,
     rippleDuration |-> [c \in Controllers |-> IF c = Primary THEN 600 ELSE 300],
     rippleScale |-> [c \in Controllers |-> IF c = Primary THEN 2 ELSE peerScale]]

Navigator(memory, cores, type, vibrate) ==
    [deviceMemory |-> memory, hardwareConcurrency |-> cores, effectiveType |-> type,
     vibrate |-> vibrate]

DefaultColor == "rgba(255, 255, 255, 0.6)"

\* The surface: every option that reaches element.style, over one low-end device
\* (so that 'auto' resolves to economy next to the three explicit tiers); reduced
\* motion is asked for by the option, by the system preference, or by neither
Init ==
    /\ options \in {Options(gpu, performance, reduce, "visual", strength, maxTilt,
                            DefaultColor, 2) :
                       gpu \in BOOLEAN, performance \in PerformanceModes,
                       reduce \in BOOLEAN, strength \in {0, 5}, maxTilt \in {0, 10}}
    /\ navigator = Navigator(1, 1, "slow-2g", FALSE)
    /\ matchMedia \in IF options.prefersReducedMotion THEN {FALSE} ELSE BOOLEAN
    /\ loadingAnimation = "spin"
    /\ Unmounted

\* the events of the surface of the modelled controller
Next ==
    \/ Mount(Primary)
    \/ Detach(Primary)
    \/ handleMouseEnter
    \/ handleMouseLeave
    \/ handleFocus
    \/ handleBlur
    \/ handleMouseDown
    \/ handleMouseUp
    \/ \E l \in BOOLEAN : setIsLoading(l)
    \/ \E anim \in LoadingAnimations : Rerender(anim)
    \/ \E p \in PointerPositions : ElementMouseMove(p)
    \/ \E p \in PointerPositions : DocumentMouseMove(p)

Spec == Init /\ [][Next]_vars

\* Haptic feedback: every feedback mode, with and without navigator.vibrate
HapticInit ==
    /\ options \in {Options(TRUE, "auto", reduce, feedback, 5, 10, DefaultColor, 2) :
                       reduce \in BOOLEAN, feedback \in FeedbackModes}
    /\ navigator \in {Navigator(Undefined, Undefined, NoType, v) : v \in BOOLEAN}
    /\ matchMedia = FALSE
    /\ loadingAnimation = "spin"
    /\ Unmounted

HapticSpec == HapticInit /\ [][Next]_vars

\* Ripples: createRipple reads only options and ref.current and writes only the
\* ripple spans and the shared style element, so the clicks of all controllers are
\* explored apart from the pointer events of the surface
RippleInit ==
    /\ options \in {Options(TRUE, "auto", FALSE, "visual", 5, 10, color, peerScale) :
                       color \in {"", DefaultColor}, peerScale \in {2, 3}}
    /\ navigator = Navigator(Undefined, Undefined, NoType, FALSE)
    /\ matchMedia = FALSE
    /\ loadingAnimation = "spin"
    /\ Unmounted

RippleNext ==
    \/ \E c \in Controllers : Mount(c)
    \/ \E c \in Controllers : Detach(c)
    \/ \E l \in BOOLEAN : setIsLoading(l)
    \/ \E anim \in LoadingAnimations : Rerender(anim)
    \/ \E c \in Controllers : handleClick(c)
    \/ \E i \in 1..MaxClicks : RippleTimeout(i)

\* a timer that was armed fires
RippleSpec ==
    /\ RippleInit
    /\ [][RippleNext]_vars
    /\ \A i \in 1..MaxClicks : WF_vars(RippleTimeout(i))

\* The capability classifier: every requested mode over every capability snapshot
ClassifyInit ==
    /\ options \in {Options(TRUE, performance, FALSE, "visual", 5, 10, DefaultColor, 2) :
                       performance \in PerformanceModes}
    /\ navigator \in {Navigator(memory, cores, type, FALSE) :
                         memory \in DeviceMemories, cores \in HardwareConcurrencies,
                         type \in EffectiveTypes}
    /\ matchMedia = FALSE
    /\ loadingAnimation = "spin"
    /\ Unmounted

ClassifyNext == Mount(Primary)

ClassifySpec == ClassifyInit /\ [][ClassifyNext]_vars

----------------------------------------------------------------------------
(* Properties *)

Detached == status[Primary] = "detached"
LiveRipples == DOMAIN ripples
NeutralTransform == IF options.gpu THEN GpuTransform ELSE EmptyTransform

\* C1: with reduceMotion true, every duration applied to the surface (the transition
\* written by the hover, focus, active and tilt code, and the duration of every live
\* loading animation) is the minimal value 1, never the configured duration.
C1_ReducedMotionMinimalDurations ==
    shouldReduceMotion =>
        /\ style.transition = NoTransition \/ style.transition.ms = 1
        /\ \A i \in 1..Len(animations) : animations[i].duration = 1

\* C2: once the controller is detached no listener is registered and no looping
\* animation is live, and no later event changes the transform, filter, box-shadow
\* or transition of the surface.
C2_DetachReleasesEverything ==
    /\ [](Detached => listeners = {} /\ animations = <<>>)
    /\ [][Detached => style' = style]_vars

\* C2 witness: the controller was detached while hovered and loading, after a
\* pointer move had been tracked, and its animation was cancelled
C2_Witness ==
    /\ Detached /\ isHovered /\ isLoading
    /\ lastCancelled # ""
    /\ style.transition.prop = "transform"
    /\ listeners = {}

\* C3: at most one looping loading animation is live on the surface; it is live
\* exactly while the controller is mounted and loading, and it is the one the latest
\* render asked for.
C3_OneLoadingAnimation ==
    /\ Len(animations) <= 1
    /\ Len(animations) = 1 <=> (Mounted /\ isLoading)
    /\ Len(animations) = 1 => animations[1].name = loadingAnimation

\* C3 witness: loading was started anew under another animation name, and the
\* earlier animation was cancelled
C3_Witness ==
    /\ Len(animations) = 1
    /\ animations[1].name = "pulse"
    /\ lastCancelled = "spin"

\* C4: while a press is held, navigator.vibrate has been called exactly once since
\* the press began when the feedback mode is 'haptic' or 'both' and the capability
\* is present, and not at all otherwise.
C4_OneVibrationPerPress ==
    isActive =>
        vibrations = IF options.feedback \in {"haptic", "both"} /\ navigator.vibrate
                     THEN 1 ELSE 0

\* C5: the displacement the magnetic effect applies is never NaN; at distance 0 from
\* the centre it is (0, 0).
C5_MagneticDisplacementDefined ==
    style.transform.kind = "translate" => ~style.transform.nan

\* C6 as stated: every click on a bound surface spawns exactly one ripple, armed
\* with a removal timer equal to the resolved ripple duration of its controller.
C6_EveryClickSpawnsOneRipple ==
    [][clicks' = clicks + 1 =>
          /\ LiveRipples' = LiveRipples \cup {clicks'}
          /\ clicks' \notin LiveRipples
          /\ ripples'[clicks'].timer = options.rippleDuration[ripples'[clicks'].owner]]_vars

\* C6 amended: a click on a bound surface whose resolved ripple colour is not empty
\* spawns exactly one ripple, armed with a removal timer equal to the resolved ripple
\* duration of its controller, and a click with an empty colour spawns none; the
\* ripples already live are left alone by a click; a ripple goes away alone, in a
\* step that handles no click; and every ripple is eventually removed.
C6_ColouredClickSpawnsOneRipple ==
    /\ [][clicks' = clicks + 1 =>
            IF options.rippleColor # ""
            THEN /\ LiveRipples' = LiveRipples \cup {clicks'}
                 /\ clicks' \notin LiveRipples
                 /\ ripples'[clicks'].timer = options.rippleDuration[ripples'[clicks'].owner]
                 /\ \A i \in LiveRipples : ripples'[i] = ripples[i]
            ELSE ripples' = ripples]_vars
    /\ [][\A i \in LiveRipples : i \notin LiveRipples' =>
            /\ LiveRipples' = LiveRipples \ {i}
            /\ clicks' = clicks]_vars
    /\ \A i \in 1..MaxClicks : (i \in LiveRipples) ~> (i \notin LiveRipples)

\* C6 witness: two clicks were handled, the first ripple is gone and the second one,
\* spawned by the other controller, is still live after the surface's controller
\* was detached
C6_Witness ==
    /\ clicks = 2
    /\ LiveRipples = {2}
    /\ ripples[2].owner # Primary
    /\ ripples[2].timer = 300
    /\ Detached

\* the classifier as the claim states it
ReferenceTier(mode, memory, cores, type) ==
    LET m == IF memory = Undefined THEN 4 ELSE memory
        k == IF cores = Undefined THEN 4 ELSE cores
        t == IF type = NoType THEN "4g" ELSE type
    IN  CASE mode # "auto" -> mode
          [] mode = "auto" /\ (m < 2 \/ k < 2 \/ t = "slow-2g") -> "economy"
          [] mode = "auto" /\ ~(m < 2 \/ k < 2 \/ t = "slow-2g")
                /\ (m >= 8 /\ k >= 8 /\ t = "4g") -> "high"
          [] OTHER -> "balanced"

\* C7: the effective performance tier of a mounted controller is the one the
\* reference classifier gives for the requested mode and the capability snapshot.
C7_TierMatchesReference ==
    status[Primary] = "mounted" =>
        memoPerformance = ReferenceTier(options.performance, navigator.deviceMemory,
                                        navigator.hardwareConcurrency,
                                        navigator.effectiveType)

\* C7 witness: 'auto' on a snapshot without a memory field, whose other fields give
\* economy
C7_Witness ==
    /\ status[Primary] = "mounted"
    /\ options.performance = "auto"
    /\ navigator.deviceMemory = Undefined
    /\ navigator.hardwareConcurrency = 1
    /\ memoPerformance = "economy"

\* C8: after onMouseEnter then onMouseLeave with nothing else since attach, the
\* transform is the neutral one ('translateZ(0)' with gpu, empty without) and the
\* filter is 'none'.
C8_HoverToggleReturnsToNeutral ==
    hoverPhase = "toggled" =>
        /\ style.transform = NeutralTransform
        /\ style.filter = NoneFilter

\* C9: while the controller is mounted and active is false, the transform of the
\* surface is not the press transform.
C9_PressOnlyWhileActive ==
    (Mounted /\ ~isActive) => style.transform.kind # "press"

\* C10: every live ripple animates to the ripple scale configured for the controller
\* that spawned it, and at most one 'ripple-keyframes' style element exists.
C10_RippleScaleOfItsController ==
    /\ Len(rippleKeyframes) <= 1
    /\ \A i \in LiveRipples :
          /\ rippleKeyframes # <<>>
          /\ rippleKeyframes[1] = options.rippleScale[ripples[i].owner]

====
